---- MODULE Spec2Model ----
(***************************************************************************)
(* Sudoku solver of src/main.py: Grid, the FirstAvailable and MRV variable *)
(* selectors, AC3 propagation and Backtracking search.                     *)
(*                                                                         *)
(* The source fixes the board at 9x9 with 3x3 boxes.  The model keeps the  *)
(* code's arithmetic and loops but takes the box side from BoxSize, so the *)
(* board is Width x Width with Width = BoxSize^2 and the complete domain   *)
(* is the first Width digits; BoxSize = 3 is the source's board.           *)
(*                                                                         *)
(* Python objects that can alias are kept on a heap: a Grid is a list of   *)
(* references to row lists (rows[ref] is the row's content).  Domains are  *)
(* Python strings (immutable), modelled as sequences of characters.        *)
(* Indices are 0-based as in the source.                                   *)
(***************************************************************************)
EXTENDS Integers, Sequences, FiniteSets, TLC

VARIABLES
    input,      \* the puzzle string p handed to read_file (sequence of characters)
    run,        \* number of the current call of search (1..NumRuns)
    pc,         \* control position inside the current call
    rows,       \* heap of row lists: row reference -> [0..Width-1 -> domain]
    top,        \* the Grid built by read_file: its _cells, a list of row references
    frames,     \* call stack of backtrack_search, outermost first
    new_grid,   \* the local new_grid of the innermost frame (_cells of the copy) or None
    Q,          \* the worklist of the running consistency call (empty when none runs)
    seed,       \* history: the worklist as passed to the running consistency call
    start,      \* history: the domains of the grid passed to the running consistency call
    ac,         \* history: what the last consistency call returned ("True", "False";
                \* "None" while it runs) and, for "True", the domains it left
    pre,        \* history: what pre_process_consistency returned to search
                \* ("True", "False"; "None" before it returns)
    retval,     \* the value being returned by the innermost backtrack_search frame
    results     \* what the caller has seen: one record per finished call of search

vars == <<input, run, pc, rows, top, frames, new_grid, Q, seed, start, ac, pre, retval, results>>

\* Python's None where a list, a tuple or a Grid is expected
None == <<>>

(***************************************************************************)
(* Bounds of the model.                                                    *)
(***************************************************************************)
\* side of a box; the source's board is BoxSize = 3
BoxSize == 2
\* how many times the caller runs each selector on the same puzzle string
Repeats == 2
\* how many cells of ClueOrder may carry a given digit in the input
NumClues == 4

Width == BoxSize * BoxSize

DigitChars == <<"1", "2", "3", "4", "5", "6", "7", "8", "9">>

\* Grid.__init__: _complete_domain, here the first Width digits
complete_domain == [k \in 1..Width |-> DigitChars[k]]

Min(a, b) == IF a < b THEN a ELSE b

(***************************************************************************)
(* The puzzle strings the caller hands to read_file.  Base is a solved     *)
(* board; a puzzle keeps the digits of Base on a subset of the first       *)
(* NumClues cells of ClueOrder, and may overwrite one character (another   *)
(* digit, or a character that is no digit), lose its last character or     *)
(* carry one more.                                                          *)
(***************************************************************************)
Base(r, c) == (((r % BoxSize) * BoxSize + (r \div BoxSize) + c) % Width) + 1

ClueOrder == <<11, 15, 5, 8, 2, 12>>

ClueCells == {ClueOrder[k] : k \in 1..Min(NumClues, Len(ClueOrder))}

OverwriteCells == {6}

OverwriteChars == {DigitChars[k] : k \in 1..Width} \cup {"x"}

Puzzle(clues) ==
    [p \in 1..(Width * Width) |->
        IF (p - 1) \in clues
        THEN DigitChars[Base((p - 1) \div Width, (p - 1) % Width)]
        ELSE "."]

Overwrite(s, cell, ch) == [s EXCEPT ![cell + 1] = ch]

Inputs ==
    LET plain == {Puzzle(clues) : clues \in SUBSET ClueCells}
    IN  plain
        \cup {Overwrite(s, cell, ch) : s \in plain, cell \in OverwriteCells, ch \in OverwriteChars}
        \cup {SubSeq(s, 1, Len(s) - 1) : s \in {Puzzle(ClueCells)}}
        \cup {Append(s, ".") : s \in {Puzzle(ClueCells)}}

(***************************************************************************)
(* Grid                                                                    *)
(***************************************************************************)
\* Grid.read_file: one row list per Width characters read; characters left
\* over after the last complete row are dropped with the local `row`.
\* The result is the content of _cells: a list of rows.
read_file(string_puzzle) ==
    [i \in 0..((Len(string_puzzle) \div Width) - 1) |->
        [j \in 0..(Width - 1) |->
            LET p == string_puzzle[i * Width + j + 1]
            IN  IF p = "." THEN complete_domain ELSE <<p>>]]

\* Number of rows of a _cells list (function on 0..n-1).
NumRows(cells) == Cardinality(DOMAIN cells)

\* The domains of a grid whose _cells is the list of row references g.
Cells(h, g) == [i \in DOMAIN g |-> h[g[i]]]

\* the row scan rejecting a value that a peer still has in its domain
RECURSIVE RowScan_value_in_domain(_, _, _, _, _)
RowScan_value_in_domain(m, value, row, column, i) ==
    IF i = Width THEN TRUE
    ELSE IF i = column THEN RowScan_value_in_domain(m, value, row, column, i + 1)
    ELSE IF \E p \in 1..Len(m[row][i]) : <<m[row][i][p]>> = value THEN FALSE
    ELSE RowScan_value_in_domain(m, value, row, column, i + 1)

\* Grid.is_value_consistent, on the matrix of domains m
RECURSIVE RowScan(_, _, _, _, _)
RowScan(m, value, row, column, i) ==
    IF i = Width THEN TRUE
    ELSE IF i = column THEN RowScan(m, value, row, column, i + 1)
    ELSE IF m[row][i] = value THEN FALSE
    ELSE RowScan(m, value, row, column, i + 1)

RECURSIVE ColumnScan(_, _, _, _, _)
ColumnScan(m, value, row, column, i) ==
    IF i = Width THEN TRUE
    ELSE IF i = row THEN ColumnScan(m, value, row, column, i + 1)
    ELSE IF m[i][column] = value THEN FALSE
    ELSE ColumnScan(m, value, row, column, i + 1)

\* the cells of the box of (row, column) in the order of the two nested loops
UnitCells(row, column) ==
    LET row_init == (row \div BoxSize) * BoxSize
        column_init == (column \div BoxSize) * BoxSize
    IN  [k \in 1..(BoxSize * BoxSize) |->
            <<row_init + ((k - 1) \div BoxSize), column_init + ((k - 1) % BoxSize)>>]

RECURSIVE UnitScan(_, _, _, _, _)
UnitScan(m, value, row, column, k) ==
    IF k > BoxSize * BoxSize THEN TRUE
    ELSE LET ij == UnitCells(row, column)[k]
         IN  IF ij = <<row, column>> THEN UnitScan(m, value, row, column, k + 1)
             ELSE IF m[ij[1]][ij[2]] = value THEN FALSE
             ELSE UnitScan(m, value, row, column, k + 1)

is_value_consistent(m, value, row, column) ==
    /\ RowScan(m, value, row, column, 0)
    /\ ColumnScan(m, value, row, column, 0)
    /\ UnitScan(m, value, row, column, 1)

\* is_solved without the test of the peers
is_solved_length_only(m) ==
    \A i \in 0..(Width - 1) : \A j \in 0..(Width - 1) : ~(Len(m[i][j]) > 1)

\* Grid.is_solved
is_solved(m) ==
    \A i \in 0..(Width - 1) : \A j \in 0..(Width - 1) :
        ~(Len(m[i][j]) > 1 \/ ~is_value_consistent(m, m[i][j], i, j))

(***************************************************************************)
(* Variable selectors                                                      *)
(***************************************************************************)
\* FirstAvailable.select_variable: row-major scan from cell number n
RECURSIVE FirstAvailableScan(_, _)
FirstAvailableScan(m, n) ==
    IF n = Width * Width THEN None
    ELSE IF Len(m[n \div Width][n % Width]) > 1 THEN <<n \div Width, n % Width>>
    ELSE FirstAvailableScan(m, n + 1)

FirstAvailable(m) == FirstAvailableScan(m, 0)

\* stands for float('inf'), larger than every domain size
Inf == -1

\* the scan taking only domains of more than two values for open
RECURSIVE MRVScan_above_two(_, _, _, _)
MRVScan_above_two(m, n, min_domain_size, selected_var) ==
    IF n = Width * Width THEN selected_var
    ELSE LET domain_size == Len(m[n \div Width][n % Width])
         IN  IF domain_size > 2 /\ (min_domain_size = Inf \/ domain_size < min_domain_size)
             THEN MRVScan_above_two(m, n + 1, domain_size, <<n \div Width, n % Width>>)
             ELSE MRVScan_above_two(m, n + 1, min_domain_size, selected_var)

\* the scan with <= for <: the last of the smallest domains wins
RECURSIVE MRVScan_last_of_ties(_, _, _, _)
MRVScan_last_of_ties(m, n, min_domain_size, selected_var) ==
    IF n = Width * Width THEN selected_var
    ELSE LET domain_size == Len(m[n \div Width][n % Width])
         IN  IF domain_size > 1 /\ (min_domain_size = Inf \/ domain_size <= min_domain_size)
             THEN MRVScan_last_of_ties(m, n + 1, domain_size, <<n \div Width, n % Width>>)
             ELSE MRVScan_last_of_ties(m, n + 1, min_domain_size, selected_var)

\* MRV.select_variable: row-major scan carrying min_domain_size and
\* selected_var
RECURSIVE MRVScan(_, _, _, _)
MRVScan(m, n, min_domain_size, selected_var) ==
    IF n = Width * Width THEN selected_var
    ELSE LET domain_size == Len(m[n \div Width][n % Width])
         IN  IF domain_size > 1 /\ (min_domain_size = Inf \/ domain_size < min_domain_size)
             THEN MRVScan(m, n + 1, domain_size, <<n \div Width, n % Width>>)
             ELSE MRVScan(m, n + 1, min_domain_size, selected_var)

MRV(m) == MRVScan(m, 0, Inf, None)

select_variable(var_selector, m) ==
    IF var_selector = "MRV" THEN MRV(m) ELSE FirstAvailable(m)

(***************************************************************************)
(* AC3                                                                     *)
(***************************************************************************)
\* str.replace(old, ''): drops the occurrences of old found left to right
RECURSIVE replace(_, _)
replace(s, old) ==
    IF Len(old) = 0 \/ Len(s) < Len(old) THEN s
    ELSE IF SubSeq(s, 1, Len(old)) = old
         THEN replace(SubSeq(s, Len(old) + 1, Len(s)), old)
         ELSE <<Head(s)>> \o replace(Tail(s), old)

\* The loop body shared by the three remove_domain_* methods, run over the
\* cells `visit` (in the method's own order) from position k on.  h is the
\* heap of rows and g the grid's list of row references; every write goes
\* to the heap at once, so a pass that fails has already changed the cells
\* it visited before the failing one.
\* the loop body with the write moved before the test for the empty domain
RECURSIVE RemoveLoop_write_first(_, _, _, _, _, _, _)
RemoveLoop_write_first(h, g, row, column, visit, k, variables_assigned) ==
    IF k > Len(visit)
    THEN [rows |-> h, variables_assigned |-> variables_assigned, failure |-> FALSE]
    ELSE LET i == visit[k][1]
             j == visit[k][2]
             new_domain == replace(h[g[i]][j], h[g[row]][column])
         IN  IF Len(new_domain) = 0
             THEN [rows |-> [h EXCEPT ![g[i]][j] = new_domain],
                   variables_assigned |-> None, failure |-> TRUE]
             ELSE RemoveLoop_write_first([h EXCEPT ![g[i]][j] = new_domain], g, row, column,
                             visit, k + 1,
                             IF Len(new_domain) = 1 /\ Len(h[g[i]][j]) > 1
                             THEN Append(variables_assigned, <<i, j>>)
                             ELSE variables_assigned)

RECURSIVE RemoveLoop(_, _, _, _, _, _, _)
RemoveLoop(h, g, row, column, visit, k, variables_assigned) ==
    IF k > Len(visit)
    THEN [rows |-> h, variables_assigned |-> variables_assigned, failure |-> FALSE]
    ELSE LET i == visit[k][1]
             j == visit[k][2]
             new_domain == replace(h[g[i]][j], h[g[row]][column])
         IN  IF Len(new_domain) = 0
             THEN [rows |-> h, variables_assigned |-> None, failure |-> TRUE]
             ELSE RemoveLoop([h EXCEPT ![g[i]][j] = new_domain], g, row, column, visit, k + 1,
                             IF Len(new_domain) = 1 /\ Len(h[g[i]][j]) > 1
                             THEN Append(variables_assigned, <<i, j>>)
                             ELSE variables_assigned)

\* the cells visited by each method, in loop order, the source cell skipped
RowVisit(row, column) ==
    SelectSeq([k \in 1..Width |-> <<row, k - 1>>], LAMBDA ij : ij[2] # column)

\* the column pass visiting only the rows above the source cell
ColumnVisit_rows_above(row, column) ==
    SelectSeq([k \in 1..Width |-> <<k - 1, column>>], LAMBDA ij : ij[1] < row)

ColumnVisit(row, column) ==
    SelectSeq([k \in 1..Width |-> <<k - 1, column>>], LAMBDA ij : ij[1] # row)

UnitVisit(row, column) ==
    SelectSeq(UnitCells(row, column), LAMBDA ij : ij # <<row, column>>)

remove_domain_row(h, g, row, column) ==
    RemoveLoop(h, g, row, column, RowVisit(row, column), 1, <<>>)

remove_domain_column(h, g, row, column) ==
    RemoveLoop(h, g, row, column, ColumnVisit(row, column), 1, <<>>)

remove_domain_unit(h, g, row, column) ==
    RemoveLoop(h, g, row, column, UnitVisit(row, column), 1, <<>>)

Range(s) == {s[k] : k \in DOMAIN s}

\* the iteration with the failure flag of the row pass left out of the test
consistency_step_row_flag_dropped(h, g, q, row, col) ==
    LET unit == remove_domain_unit(h, g, row, col)
        column == remove_domain_column(unit.rows, g, row, col)
        rw == remove_domain_row(column.rows, g, row, col)
    IN  IF unit.failure \/ column.failure
        THEN [rows |-> rw.rows, Q |-> q \ {<<row, col>>}, failure |-> TRUE]
        ELSE [rows |-> rw.rows,
              Q |-> (q \ {<<row, col>>}) \cup Range(unit.variables_assigned)
                        \cup Range(column.variables_assigned) \cup Range(rw.variables_assigned),
              failure |-> FALSE]

\* the iteration with the cells found by the unit pass not added to Q
consistency_step_unit_list_dropped(h, g, q, row, col) ==
    LET unit == remove_domain_unit(h, g, row, col)
        column == remove_domain_column(unit.rows, g, row, col)
        rw == remove_domain_row(column.rows, g, row, col)
    IN  IF unit.failure \/ column.failure \/ rw.failure
        THEN [rows |-> rw.rows, Q |-> q \ {<<row, col>>}, failure |-> TRUE]
        ELSE [rows |-> rw.rows,
              Q |-> (q \ {<<row, col>>})
                        \cup Range(column.variables_assigned) \cup Range(rw.variables_assigned),
              failure |-> FALSE]

\* the iteration with the cells found by the column pass not added to Q
consistency_step_column_list_dropped(h, g, q, row, col) ==
    LET unit == remove_domain_unit(h, g, row, col)
        column == remove_domain_column(unit.rows, g, row, col)
        rw == remove_domain_row(column.rows, g, row, col)
    IN  IF unit.failure \/ column.failure \/ rw.failure
        THEN [rows |-> rw.rows, Q |-> q \ {<<row, col>>}, failure |-> TRUE]
        ELSE [rows |-> rw.rows,
              Q |-> (q \ {<<row, col>>}) \cup Range(unit.variables_assigned)
                        \cup Range(rw.variables_assigned),
              failure |-> FALSE]

\* One iteration of the while loop of AC3.consistency for the popped (row, col):
\* the three passes run one after the other on the same grid, each seeing
\* the writes of the one before, and only then are the failure flags read.
consistency_step(h, g, q, row, col) ==
    LET unit == remove_domain_unit(h, g, row, col)
        column == remove_domain_column(unit.rows, g, row, col)
        rw == remove_domain_row(column.rows, g, row, col)
    IN  IF unit.failure \/ column.failure \/ rw.failure
        THEN [rows |-> rw.rows, Q |-> q \ {<<row, col>>}, failure |-> TRUE]
        ELSE [rows |-> rw.rows,
              Q |-> (q \ {<<row, col>>}) \cup Range(unit.variables_assigned)
                        \cup Range(column.variables_assigned) \cup Range(rw.variables_assigned),
              failure |-> FALSE]

\* AC3.pre_process_consistency: the worklist it builds
pre_process_Q(m) ==
    {ij \in (0..(Width - 1)) \X (0..(Width - 1)) : Len(m[ij[1]][ij[2]]) = 1}

(***************************************************************************)
(* Heap operations                                                         *)
(***************************************************************************)
\* Row lists are named <<d, i>>: row i of the grid built by read_file (d = 0)
\* or of the copy made by the backtrack_search frame at depth d (d >= 1).

\* the copy with a new outer list over the same row lists
Grid_copy_rows_shared(h, g, d) == [cells |-> g, rows |-> h]

\* Grid.copy called by the frame at depth d: a new outer list holding a new
\* list per row (row.copy()), each with the same domains.
Grid_copy(h, g, d) ==
    [cells |-> [i \in DOMAIN g |-> <<d, i>>],
     rows  |-> [ref \in DOMAIN h \cup {<<d, i>> : i \in DOMAIN g} |->
                    IF ref[1] = d THEN h[g[ref[2]]] ELSE h[ref]]]

\* the copy of the frame at depth d is no longer referenced: its rows are collected
Collect(h, d) == [ref \in {r \in DOMAIN h : r[1] # d} |-> h[ref]]

\* the selector object the caller passes in call number n: MRV first, as in the script
var_selector(n) == IF n % 2 = 1 THEN "MRV" ELSE "FirstAvailable"

NumRuns == 2 * Repeats

Running == [ok |-> "None", cells |-> None]

Frame(g) == [grid |-> g, var |-> None, dom |-> <<>>, k |-> 0]

Depth == Len(frames)

(***************************************************************************)
(* The caller                                                              *)
(***************************************************************************)
Init ==
    /\ input \in Inputs
    /\ run = 1
    /\ pc = "idle"
    /\ rows = <<>>
    /\ top = <<>>
    /\ frames = <<>>
    /\ new_grid = None
    /\ Q = {}
    /\ seed = {}
    /\ start = None
    /\ ac = Running
    /\ pre = "None"
    /\ retval = None
    /\ results = <<>>

\* grid = Grid(); grid.read_file(p)
ReadFile ==
    /\ pc = "idle"
    /\ run <= NumRuns
    /\ LET cells == read_file(input)
       IN  /\ top' = [i \in DOMAIN cells |-> <<0, i>>]
           /\ rows' = [ref \in {<<0, i>> : i \in DOMAIN cells} |-> cells[ref[2]]]
    /\ pc' = "search"
    /\ UNCHANGED <<input, run, frames, new_grid, Q, seed, start, ac, pre, retval, results>>

(***************************************************************************)
(* Backtracking.search                                                     *)
(***************************************************************************)
\* search calls pre_process_consistency, whose double loop reads rows
\* 0..Width-1 of the grid: on a grid with fewer rows the call ends with
\* IndexError, which neither AC3 nor Backtracking catches.
SearchIndexError ==
    /\ pc = "search"
    /\ NumRows(top) < Width
    /\ results' = Append(results, [var_selector |-> var_selector(run), pre |-> "None",
                                   outcome |-> "IndexError", result |-> None])
    /\ run' = run + 1
    /\ pc' = "idle"
    /\ rows' = <<>>
    /\ top' = <<>>
    /\ UNCHANGED <<input, frames, new_grid, Q, seed, start, ac, pre, retval>>

\* search calls pre_process_consistency, which fills Q and calls consistency
Search ==
    /\ pc = "search"
    /\ NumRows(top) >= Width
    /\ Q' = pre_process_Q(Cells(rows, top))
    /\ seed' = Q'
    /\ start' = Cells(rows, top)
    /\ ac' = Running
    /\ pre' = "None"
    /\ pc' = "pre"
    /\ UNCHANGED <<input, run, rows, top, frames, new_grid, retval, results>>

\* the grid the running consistency call works on
ConsistencyGrid == IF pc = "pre" THEN top ELSE new_grid

\* AC3.consistency, one iteration of the while loop that does not fail
ConsistencyPop ==
    /\ pc \in {"pre", "branch"}
    /\ \E rc \in Q :
        LET s == consistency_step(rows, ConsistencyGrid, Q, rc[1], rc[2])
        IN  /\ ~s.failure
            /\ rows' = s.rows
            /\ Q' = s.Q
    /\ UNCHANGED <<input, run, pc, top, frames, new_grid, seed, start, ac, pre, retval, results>>

\* pre_process_consistency returns False; search drops the value and calls
\* backtrack_search on the grid as the failed pass left it
PreFails ==
    /\ pc = "pre"
    /\ \E rc \in Q :
        LET s == consistency_step(rows, top, Q, rc[1], rc[2])
        IN  /\ s.failure
            /\ rows' = s.rows
            /\ Q' = {}
    /\ ac' = [ok |-> "False", cells |-> None]
    /\ pre' = "False"
    /\ frames' = <<Frame(top)>>
    /\ pc' = "enter"
    /\ UNCHANGED <<input, run, top, new_grid, seed, start, retval, results>>

\* pre_process_consistency returns True; search calls backtrack_search
PreSucceeds ==
    /\ pc = "pre"
    /\ Q = {}
    /\ ac' = [ok |-> "True", cells |-> Cells(rows, top)]
    /\ pre' = "True"
    /\ frames' = <<Frame(top)>>
    /\ pc' = "enter"
    /\ UNCHANGED <<input, run, rows, top, new_grid, Q, seed, start, retval, results>>

(***************************************************************************)
(* Backtracking.backtrack_search, innermost frame                          *)
(***************************************************************************)
\* if grid.is_solved(): return grid
EnterSolved ==
    /\ pc = "enter"
    /\ is_solved(Cells(rows, frames[Depth].grid))
    /\ retval' = frames[Depth].grid
    /\ pc' = "return"
    /\ UNCHANGED <<input, run, rows, top, frames, new_grid, Q, seed, start, ac, pre, results>>

\* var is None: return None
EnterNoVariable ==
    /\ pc = "enter"
    /\ ~is_solved(Cells(rows, frames[Depth].grid))
    /\ select_variable(var_selector(run), Cells(rows, frames[Depth].grid)) = None
    /\ retval' = None
    /\ pc' = "return"
    /\ UNCHANGED <<input, run, rows, top, frames, new_grid, Q, seed, start, ac, pre, results>>

\* row, col = var; the for loop starts on the string grid.get_cells()[row][col]
EnterSelect ==
    /\ pc = "enter"
    /\ LET m == Cells(rows, frames[Depth].grid)
           var == select_variable(var_selector(run), m)
       IN  /\ ~is_solved(m)
           /\ var # None
           /\ frames' = [frames EXCEPT ![Depth] =
                            [grid |-> @.grid, var |-> var, dom |-> m[var[1]][var[2]], k |-> 1]]
    /\ pc' = "loop"
    /\ UNCHANGED <<input, run, rows, top, new_grid, Q, seed, start, ac, pre, retval, results>>

\* the candidates taken from the end of the domain
Candidate_last_first(f) == <<f.dom[Len(f.dom) + 1 - f.k]>>

\* the candidate taken to be the whole domain of the branching cell
Candidate_whole_domain(f) == f.dom

\* the candidate d of this iteration, a one-character string
Candidate(f) == <<f.dom[f.k]>>

\* is_value_consistent(d, row, col) is False: next d
SkipValue ==
    /\ pc = "loop"
    /\ LET f == frames[Depth]
       IN  /\ f.k <= Len(f.dom)
           /\ ~is_value_consistent(Cells(rows, f.grid), Candidate(f), f.var[1], f.var[2])
    /\ frames' = [frames EXCEPT ![Depth].k = @ + 1]
    /\ UNCHANGED <<input, run, pc, rows, top, new_grid, Q, seed, start, ac, pre, retval, results>>

\* new_grid = grid.copy(); new_grid.get_cells()[row][col] = d;
\* ac3.consistency(new_grid, {(row, col)}) is entered
TryValue ==
    /\ pc = "loop"
    /\ LET f == frames[Depth]
           c == Grid_copy(rows, f.grid, Depth)
           h == [c.rows EXCEPT ![c.cells[f.var[1]]][f.var[2]] = Candidate(f)]
       IN  /\ f.k <= Len(f.dom)
           /\ is_value_consistent(Cells(rows, f.grid), Candidate(f), f.var[1], f.var[2])
           /\ new_grid' = c.cells
           /\ rows' = h
           /\ Q' = {f.var}
           /\ seed' = {f.var}
           /\ start' = Cells(h, c.cells)
    /\ ac' = Running
    /\ pc' = "branch"
    /\ UNCHANGED <<input, run, top, frames, pre, retval, results>>

\* consistency(new_grid, ...) returns False: continue with the next d
BranchFails ==
    /\ pc = "branch"
    /\ \E rc \in Q :
        LET s == consistency_step(rows, new_grid, Q, rc[1], rc[2])
        IN  /\ s.failure
            /\ rows' = Collect(s.rows, Depth)
            /\ Q' = {}
    /\ ac' = [ok |-> "False", cells |-> None]
    /\ new_grid' = None
    /\ frames' = [frames EXCEPT ![Depth].k = @ + 1]
    /\ pc' = "loop"
    /\ UNCHANGED <<input, run, top, seed, start, pre, retval, results>>

\* consistency(new_grid, ...) returns True: backtrack_search(new_grid, ...) is called
BranchSucceeds ==
    /\ pc = "branch"
    /\ Q = {}
    /\ ac' = [ok |-> "True", cells |-> Cells(rows, new_grid)]
    /\ frames' = Append(frames, Frame(new_grid))
    /\ new_grid' = None
    /\ pc' = "enter"
    /\ UNCHANGED <<input, run, rows, top, Q, seed, start, pre, retval, results>>

\* the for loop is exhausted: return None
LoopExhausted ==
    /\ pc = "loop"
    /\ frames[Depth].k > Len(frames[Depth].dom)
    /\ retval' = None
    /\ pc' = "return"
    /\ UNCHANGED <<input, run, rows, top, frames, new_grid, Q, seed, start, ac, pre, results>>

\* the recursive call returned a grid: the calling frame returns it at once
ReturnResult ==
    /\ pc = "return"
    /\ Depth > 1
    /\ retval # None
    /\ frames' = SubSeq(frames, 1, Depth - 1)
    /\ UNCHANGED <<input, run, pc, rows, top, new_grid, Q, seed, start, ac, pre, retval, results>>

\* the recursive call returned None: the calling frame goes on with the next d
ReturnNone ==
    /\ pc = "return"
    /\ Depth > 1
    /\ retval = None
    /\ frames' = [SubSeq(frames, 1, Depth - 1) EXCEPT ![Depth - 1].k = @ + 1]
    /\ rows' = Collect(rows, Depth - 1)
    /\ pc' = "loop"
    /\ UNCHANGED <<input, run, top, new_grid, Q, seed, start, ac, pre, retval, results>>

\* the outermost frame returns, and search returns its value to the caller
ReturnToCaller ==
    /\ pc = "return"
    /\ Depth = 1
    /\ results' = Append(results, [var_selector |-> var_selector(run), pre |-> pre,
                                   outcome |-> IF retval = None THEN "None" ELSE "Grid",
                                   result |-> IF retval = None THEN None ELSE Cells(rows, retval)])
    /\ run' = run + 1
    /\ pc' = "idle"
    /\ rows' = <<>>
    /\ top' = <<>>
    /\ frames' = <<>>
    /\ retval' = None
    /\ seed' = {}
    /\ start' = None
    /\ ac' = Running
    /\ pre' = "None"
    /\ UNCHANGED <<input, new_grid, Q>>

Next ==
    \/ ReadFile
    \/ SearchIndexError
    \/ Search
    \/ ConsistencyPop
    \/ PreFails
    \/ PreSucceeds
    \/ EnterSolved
    \/ EnterNoVariable
    \/ EnterSelect
    \/ SkipValue
    \/ TryValue
    \/ BranchFails
    \/ BranchSucceeds
    \/ LoopExhausted
    \/ ReturnResult
    \/ ReturnNone
    \/ ReturnToCaller

Spec == Init /\ [][Next]_vars

(***************************************************************************)
(* Vocabulary of the properties                                            *)
(***************************************************************************)
Digits == {DigitChars[k] : k \in 1..Width}

Index == 0..(Width - 1)

\* the input is a string of the right length over '.' and the digits
WellFormed(s) ==
    /\ Len(s) = Width * Width
    /\ \A p \in 1..Len(s) : s[p] \in Digits \cup {"."}

\* the boxes as sets of cells
Boxes ==
    {{<<i, j>> \in Index \X Index : i \div BoxSize = bi /\ j \div BoxSize = bj} :
        bi \in 0..(BoxSize - 1), bj \in 0..(BoxSize - 1)}

\* m is a fully solved board: one digit per cell, and each digit exactly
\* once in every row, every column and every box
SolvedBoard(m) ==
    /\ \A i \in Index, j \in Index : Len(m[i][j]) = 1 /\ m[i][j][1] \in Digits
    /\ \A i \in Index, d \in Digits : Cardinality({j \in Index : m[i][j] = <<d>>}) = 1
    /\ \A j \in Index, d \in Digits : Cardinality({i \in Index : m[i][j] = <<d>>}) = 1
    /\ \A b \in Boxes, d \in Digits : Cardinality({ij \in b : m[ij[1]][ij[2]] = <<d>>}) = 1

\* the calls of search that have returned a grid
Solved == {k \in DOMAIN results : results[k].outcome = "Grid"}

\* C1: on a well-formed input, for either selector, a grid returned by
\* backtrack_search (by any frame, and so by search) has one digit in every
\* cell and each digit exactly once in every row, column and box; nothing
\* partially solved is ever returned.
C1_ReturnedGridIsSolved ==
    WellFormed(input) =>
        /\ (pc = "return" /\ retval # None) => SolvedBoard(Cells(rows, retval))
        /\ \A k \in Solved : SolvedBoard(results[k].result)

\* a grid found by branching, after at least one candidate was given up,
\* has been returned to the caller
C1_Witness ==
    /\ WellFormed(input)
    /\ pc = "return" /\ retval # None /\ Depth > 1
    /\ \E d \in 1..(Depth - 1) : frames[d].k > 1

\* every digit of the input stands unchanged at its position in every grid
\* that search has returned
GivensPreserved ==
    \A k \in Solved : \A p \in 1..Min(Len(input), Width * Width) :
        input[p] \in Digits =>
            results[k].result[(p - 1) \div Width][(p - 1) % Width] = <<input[p]>>

\* a step leaves every cell that holds exactly one value as it is, in every
\* row list that lives through the step
SingletonsKept ==
    \A ref \in DOMAIN rows \cap DOMAIN rows' : \A j \in Index :
        Len(rows[ref][j]) = 1 => rows'[ref][j] = rows[ref][j]

\* C2: for every input and either selector, a returned grid holds every given
\* digit of the input at its position, and no propagation pass or search
\* step ever changes the domain of a cell that is already a singleton.
C2_Preservation == [](GivensPreserved) /\ [][SingletonsKept]_vars

\* both selectors have returned a grid for an input that has given digits
\* and open cells
C2_Witness ==
    /\ \E k \in Solved : results[k].var_selector = "MRV"
    /\ \E k \in Solved : results[k].var_selector = "FirstAvailable"
    /\ \E p \in 1..Len(input) : input[p] \in Digits
    /\ \E p \in 1..Len(input) : input[p] = "."

\* two given cells of one row of the input grid hold the same digit
DuplicateInRow(s) ==
    LET m == read_file(s)
    IN  /\ NumRows(m) >= Width
        /\ \E i \in Index : \E j1 \in Index, j2 \in Index :
            /\ j1 # j2
            /\ Len(m[i][j1]) = 1 /\ m[i][j1][1] \in Digits
            /\ m[i][j2] = m[i][j1]

\* C3: on an input grid with two equal given digits in one row,
\* pre_process_consistency returns False under every order of draining the
\* worklist, and search returns None, for either selector.
C3_DuplicateRowDetected ==
    DuplicateInRow(input) =>
        /\ pre # "True"
        /\ \A k \in DOMAIN results : results[k].pre = "False" /\ results[k].outcome = "None"

\* both selectors have returned None on such a grid after a search that
\* went through several frames
C3_Witness ==
    /\ DuplicateInRow(input)
    /\ \E k \in DOMAIN results : results[k].var_selector = "MRV" /\ results[k].outcome = "None"
    /\ \E k \in DOMAIN results :
        results[k].var_selector = "FirstAvailable" /\ results[k].outcome = "None"

\* C4: once pre_process_consistency has reported failure, search returns None
\* at once: the selector is not called, the grid is not copied and no
\* candidate value is tried.
C4_FailedPreProcessingShortCircuits ==
    pre = "False" =>
        /\ pc \notin {"loop", "branch"}
        /\ new_grid = None
        /\ \A d \in 1..Depth : frames[d].var = None

\* C5: with the same input string and the same selector every call of search
\* gives the same result (the same solved grid, or None every time),
\* whatever the order in which each call drains its worklists, also when
\* pre-processing fails part-way.
C5_Determinism ==
    \A j \in DOMAIN results : \A k \in DOMAIN results :
        results[j].var_selector = results[k].var_selector =>
            /\ results[j].outcome = results[k].outcome
            /\ results[j].result = results[k].result

\* the same selector has returned twice for one input, the second time
\* after a search that had to give up candidates
C5_Witness ==
    /\ \E j \in DOMAIN results : \E k \in DOMAIN results :
        j # k /\ results[j].var_selector = results[k].var_selector
    /\ pc = "return" /\ retval # None /\ Depth > 1
    /\ \E d \in 1..(Depth - 1) : frames[d].k > 1

(***************************************************************************)
(* The valid completions of a puzzle, found without the solver: boards     *)
(* built row by row from the rows that agree with the givens.              *)
(***************************************************************************)
\* the rows (one digit per column, each digit once) that agree with row i of m
RowsFor(m, i) ==
    {r \in [Index -> Digits] :
        /\ \A j1 \in Index, j2 \in Index : j1 # j2 => r[j1] # r[j2]
        /\ \A j \in Index : Len(m[i][j]) = 1 => m[i][j] = <<r[j]>>}

\* row r may stand below the rows of the partial board b
Fits(b, r) ==
    LET i == Cardinality(DOMAIN b)
    IN  \A i2 \in DOMAIN b : \A j \in Index :
            /\ b[i2][j] # r[j]
            /\ i2 \div BoxSize = i \div BoxSize =>
                \A j2 \in Index : j2 \div BoxSize = j \div BoxSize => b[i2][j2] # r[j]

RECURSIVE BoardsUpTo(_, _)
BoardsUpTo(m, n) ==
    IF n = 0 THEN {<<>>}
    ELSE {[i \in 0..(n - 1) |-> IF i = n - 1 THEN r ELSE b[i]] :
            <<b, r>> \in {br \in BoardsUpTo(m, n - 1) \X RowsFor(m, n - 1) : Fits(br[1], br[2])}}

\* the solved grids that agree with every given of the input string
Completions(s) ==
    IF ~WellFormed(s) THEN {}
    ELSE {[i \in Index |-> [j \in Index |-> <<b[i][j]>>]] : b \in BoardsUpTo(read_file(s), Width)}

\* C6 as stated: on every puzzle that has a valid completion, FirstAvailable
\* and MRV return the same solved grid.
C6_SelectorEquivalence ==
    (pc = "idle" /\ results # <<>> /\ Completions(input) # {}) =>
        \A j \in DOMAIN results : \A k \in DOMAIN results :
            results[j].outcome = "Grid" /\ results[j].result = results[k].result

\* C6 amended: on every puzzle that has a valid completion both selectors
\* return a solved grid that is one of its completions; the two grids are
\* the same when the completion is the only one.
C6_SelectorsAgreeOnUniquePuzzles ==
    (pc = "idle" /\ results # <<>>) =>
        LET all == Completions(input)
        IN  all # {} =>
                /\ \A k \in DOMAIN results :
                    results[k].outcome = "Grid" /\ results[k].result \in all
                /\ Cardinality(all) = 1 =>
                    \A j \in DOMAIN results : \A k \in DOMAIN results :
                        results[j].result = results[k].result

\* both selectors have returned on a puzzle whose completion is unique
C6_Witness ==
    /\ pc = "idle"
    /\ results # <<>>
    /\ Cardinality(Completions(input)) = 1
    /\ \E j \in DOMAIN results : \E k \in DOMAIN results :
        /\ results[j].var_selector = "MRV" /\ results[k].var_selector = "FirstAvailable"
        /\ results[j].outcome = "Grid" /\ results[k].outcome = "Grid"

\* a grid with the domains m, on a heap of its own
HeapOf(m) == [ref \in {<<0, i>> : i \in DOMAIN m} |-> m[ref[2]]]

GridOf(m) == [i \in DOMAIN m |-> <<0, i>>]

\* pre_process_consistency run on a grid with the domains m is a run of
\* iterations that each change nothing: whichever cell of the seeded
\* worklist is popped, no pass fails, no domain changes and no cell is
\* added to the worklist.  Every order of draining then returns True and
\* leaves m as it is, and if some iteration is not of this kind the run
\* that pops it first changes a domain or returns False.
PreProcessingChangesNothing(m) ==
    \A rc \in pre_process_Q(m) :
        LET s == consistency_step(HeapOf(m), GridOf(m), pre_process_Q(m), rc[1], rc[2])
        IN  /\ ~s.failure
            /\ Cells(s.rows, GridOf(m)) = m
            /\ s.Q = pre_process_Q(m) \ {rc}

\* C7: on every grid on which consistency or pre_process_consistency has
\* returned True, running pre_process_consistency again returns True and
\* leaves every domain unchanged.
C7_PropagationIdempotent ==
    ac.ok = "True" => PreProcessingChangesNothing(ac.cells)

\* C8: building a grid from a string whose length is not Width * Width or
\* that holds a character other than '.' and the digits fails with
\* ParseError: no grid is produced, so no grid with a missing row and no
\* cell holding a character that is no digit is handed to the solver.
C8_MalformedInputRejected ==
    ~WellFormed(input) =>
        /\ top = None
        /\ pc = "idle"
        /\ \A k \in DOMAIN results : results[k].outcome = "ParseError"

\* the open cells of the grid with the domains m
Open(m) == {ij \in Index \X Index : Len(m[ij[1]][ij[2]]) > 1}

\* position of a cell in the row-major scan
ScanOrder(ij) == ij[1] * Width + ij[2]

\* what the MRV selector has to return on m
MRVContract(m, v) ==
    IF Open(m) = {} THEN v = None
    ELSE /\ v \in Open(m)
         /\ \A o \in Open(m) :
               /\ Len(m[v[1]][v[2]]) <= Len(m[o[1]][o[2]])
               /\ Len(m[v[1]][v[2]]) = Len(m[o[1]][o[2]]) => ScanOrder(v) <= ScanOrder(o)

\* the grids that exist in the current state: the input grid, the grid of
\* every frame and the copy being propagated
LiveGrids ==
    {g \in {top, new_grid} \cup {frames[d].grid : d \in 1..Depth} : NumRows(g) >= Width}

\* C9: on every grid MRV.select_variable returns None exactly when no cell is
\* open, and otherwise an open cell of least domain size, the first such
\* cell in row-major order; an assigned cell is never returned.
C9_MRVSelectsFirstSmallest ==
    /\ \A g \in LiveGrids : MRVContract(Cells(rows, g), MRV(Cells(rows, g)))
    /\ (pc = "loop" /\ var_selector(run) = "MRV") =>
            MRVContract(Cells(rows, frames[Depth].grid), frames[Depth].var)

\* backtrack_search branches on the cell MRV returned: not the first open
\* cell, and with a later open cell of the same domain size
C9_Witness ==
    /\ pc = "loop" /\ var_selector(run) = "MRV"
    /\ LET m == Cells(rows, frames[Depth].grid)
           v == frames[Depth].var
       IN  /\ v # FirstAvailable(m)
           /\ \E o \in Open(m) : o # v /\ Len(m[o[1]][o[2]]) = Len(m[v[1]][v[2]])

\* AC3.consistency run to its end with pop() always taking the first cell of
\* the worklist in row-major order
RECURSIVE consistency_first_cell(_, _, _)
consistency_first_cell(h, g, q) ==
    IF q = {} THEN [ok |-> TRUE, rows |-> h]
    ELSE LET rc == CHOOSE c \in q : \A o \in q : ScanOrder(c) <= ScanOrder(o)
             s == consistency_step(h, g, q, rc[1], rc[2])
         IN  IF s.failure THEN [ok |-> FALSE, rows |-> s.rows]
             ELSE consistency_first_cell(s.rows, g, s.Q)

\* C10: what consistency(grid, Q) returns does not depend on the order in
\* which the worklist is popped: from one starting grid and seed, either
\* every order returns False, or every order returns True and leaves the
\* same domains in all cells.  Every call, drained in any order, is held
\* against the row-major run from the same grid and seed.
C10_PopOrderIrrelevant ==
    ac.ok # "None" =>
        LET r == consistency_first_cell(HeapOf(start), GridOf(start), seed)
        IN  /\ (ac.ok = "True") = r.ok
            /\ r.ok => ac.cells = Cells(r.rows, GridOf(start))

\* a call seeded with several cells has returned True after shrinking domains
C10_Witness ==
    /\ ac.ok = "True"
    /\ Cardinality(seed) > 1
    /\ ac.cells # start

(***************************************************************************)
(* Completeness of the search                                              *)
(***************************************************************************)
\* every solved board: the completions of the puzzle without givens
AllBoards == Completions([p \in 1..(Width * Width) |-> "."])

\* the solved board b lies within the domains m: every cell of b holds a
\* value of the cell's domain
Within(m, b) ==
    \A i \in Index, j \in Index : \E p \in 1..Len(m[i][j]) : <<m[i][j][p]>> = b[i][j]

\* the valid completions of the grid with the domains m
CompletionsOf(m) == {b \in AllBoards : Within(m, b)}

\* C11: on a well-formed input, for either selector, search returns None
\* only if the puzzle has no valid completion.  Step by step: a propagation
\* that returns True has kept every completion of the grid it started from
\* (domains only shrink, so no step of it discarded a value of one), and a
\* propagation reports failure only on a grid without completion; the
\* is_value_consistent filter skips no value of a completion of the frame's
\* grid; and a frame returns None only on a grid without completion.
C11_SearchComplete ==
    WellFormed(input) =>
        /\ (pc = "idle" /\ \E k \in DOMAIN results : results[k].outcome = "None") =>
              CompletionsOf(read_file(input)) = {}
        /\ (pc = "enter" /\ ac.ok = "True") =>
              \A b \in CompletionsOf(start) : Within(ac.cells, b)
        /\ (pc \in {"enter", "loop"} /\ ac.ok = "False") => CompletionsOf(start) = {}
        /\ (pc = "loop" /\ frames[Depth].k <= Len(frames[Depth].dom)) =>
              LET f == frames[Depth]
                  m == Cells(rows, f.grid)
              IN  ~is_value_consistent(m, Candidate(f), f.var[1], f.var[2]) =>
                      \A b \in CompletionsOf(m) : b[f.var[1]][f.var[2]] # Candidate(f)
        /\ (pc = "return" /\ retval = None) =>
              CompletionsOf(Cells(rows, frames[Depth].grid)) = {}

\* search has returned None on a well-formed input whose pre-processing
\* succeeded: every candidate of the branching cells was given up
C11_Witness ==
    /\ WellFormed(input)
    /\ \E k \in DOMAIN results : results[k].outcome = "None" /\ results[k].pre = "True"

\* no cell of the row lists h holds the empty string
NoEmptyDomain(h) == \A ref \in DOMAIN h : \A j \in Index : Len(h[ref][j]) >= 1

\* C12: no cell of any grid ever holds an empty domain: not in the input
\* grid, not in a branch copy, not during a propagation run and not in the
\* grid a failing run leaves behind (the copy of a failed branch is looked
\* at as the failing iteration leaves it, before it is dropped).
C12_NoEmptyDomainWritten ==
    /\ NoEmptyDomain(rows)
    /\ pc \in {"pre", "branch"} =>
          \A rc \in Q : NoEmptyDomain(consistency_step(rows, ConsistencyGrid, Q, rc[1], rc[2]).rows)

\* a failed pre-processing has left the input grid with domains it had
\* already shrunk, and backtrack_search is entered on that grid
C12_Witness ==
    /\ pre = "False"
    /\ pc = "enter"
    /\ Depth = 1
    /\ Cells(rows, top) # start

\* a step changes no domain of the grid of any frame that is on the stack
\* before and after it
FrameGridsKept ==
    \A d \in 1..Min(Depth, Len(frames')) :
        frames'[d].grid = frames[d].grid =>
            Cells(rows', frames[d].grid) = Cells(rows, frames[d].grid)

\* while a frame runs its for loop, the branching cell of its own grid
\* holds the domain the loop was started on
LoopDomainKept ==
    pc \in {"loop", "branch"} =>
        \A d \in 1..Depth :
            frames[d].var # None =>
                Cells(rows, frames[d].grid)[frames[d].var[1]][frames[d].var[2]] = frames[d].dom

\* C13: the grid a backtrack_search frame received is modified neither by
\* the frame nor by a frame below it: every step leaves the domains of every
\* frame's grid as they are, so after a candidate failed or its recursive
\* call returned None the next candidate starts from the grid as it was on
\* entry, the branching cell still holding the domain being iterated.
C13_BranchIsolation == [](LoopDomainKept) /\ [][FrameGridsKept]_vars

\* a nested frame is about to try a second candidate after the first one
\* was given up
C13_Witness ==
    /\ pc = "loop"
    /\ Depth >= 2
    /\ frames[Depth].k > 1
    /\ frames[Depth].k <= Len(frames[Depth].dom)
    /\ is_value_consistent(Cells(rows, frames[Depth].grid), Candidate(frames[Depth]),
                           frames[Depth].var[1], frames[Depth].var[2])

\* two different cells in one row, one column or one box
Peers(a, b) ==
    /\ a # b
    /\ \/ a[1] = b[1]
       \/ a[2] = b[2]
       \/ (a[1] \div BoxSize = b[1] \div BoxSize /\ a[2] \div BoxSize = b[2] \div BoxSize)

\* no peer of an assigned cell has the cell's value in its domain
ArcConsistent(m) ==
    \A a \in Index \X Index : Len(m[a[1]][a[2]]) = 1 =>
        \A b \in Index \X Index : Peers(a, b) =>
            \A p \in 1..Len(m[b[1]][b[2]]) : m[b[1]][b[2]][p] # m[a[1]][a[2]][1]

\* C14: when pre_process_consistency has returned True the grid it leaves is
\* arc-consistent (no peer of a singleton cell holds the cell's value), and
\* so is every grid backtrack_search is then called on: the input grid and
\* each branch copy on which consistency returned True.
C14_ArcConsistentAfterSuccess ==
    pre = "True" =>
        /\ \A d \in 1..Depth : ArcConsistent(Cells(rows, frames[d].grid))
        /\ ac.ok = "True" => ArcConsistent(ac.cells)

\* backtrack_search is entered on a branch copy that still has open cells,
\* after a pre-processing that returned True
C14_Witness ==
    /\ pre = "True"
    /\ pc = "enter"
    /\ Depth >= 2
    /\ Open(Cells(rows, frames[Depth].grid)) # {}

\* number of open cells of the grid with the domains m
NumOpen(m) == Cardinality(Open(m))

\* when backtrack_search is entered, the stack of frames below the
\* top-level call is no deeper than the number of open cells of the input
\* grid, and the grid of the new frame has fewer open cells than the grid
\* of the frame that called it (the stack grows only on entry)
DepthBounded ==
    pc = "enter" =>
        /\ Depth - 1 <= NumOpen(read_file(input))
        /\ NumOpen(Cells(rows, frames[1].grid)) <= NumOpen(read_file(input))
        /\ Depth >= 2 =>
              NumOpen(Cells(rows, frames[Depth].grid))
                  < NumOpen(Cells(rows, frames[Depth - 1].grid))

\* sum of the domain sizes of the cells n, n+1, ... of m in row-major order
RECURSIVE SumLens(_, _)
SumLens(m, n) ==
    IF n = Width * Width THEN 0
    ELSE Len(m[n \div Width][n % Width]) + SumLens(m, n + 1)

\* what is left to do in the running consistency call: an iteration either
\* shrinks a domain or only takes its cell off the worklist
PropagationRank ==
    SumLens(Cells(rows, ConsistencyGrid), 0) * (Width * Width + 1) + Cardinality(Q)

\* what is left to do in the frame at depth d: the candidates not yet
\* tried, and within a candidate the position before the copy, in the
\* propagation, or in the recursive call
FrameRank(d) ==
    LET left == 3 * (Len(frames[d].dom) + 1 - frames[d].k)
    IN  IF d < Depth THEN left
        ELSE IF pc = "enter" THEN 3 * (Width + 2)
        ELSE IF pc = "loop" THEN left + 2
        ELSE IF pc = "branch" THEN left + 1
        ELSE 0

\* the calls of search the caller has still to finish, the position of the
\* current call, then the frames outermost first and the running propagation
Rank ==
    <<NumRuns + 1 - run,
      IF pc = "idle" THEN 3 ELSE IF pc = "search" THEN 2 ELSE IF pc = "pre" THEN 1 ELSE 0>>
    \o [d \in 1..Depth |-> FrameRank(d)]
    \o (IF pc \in {"pre", "branch"} THEN <<PropagationRank>> ELSE <<>>)

\* a comes before b in the lexicographic order
LexLess(a, b) ==
    \E i \in 1..Min(Len(a), Len(b)) : a[i] < b[i] /\ \A j \in 1..(i - 1) : a[j] = b[j]

\* the rank is a sequence of natural numbers, no longer than the deepest
\* stack allows
RankWellFounded ==
    /\ Len(Rank) <= Width * Width + 4
    /\ \A i \in 1..Len(Rank) : Rank[i] >= 0

\* a step takes the rank strictly down
RankDecreases == \E a \in {Rank'} : \E b \in {Rank} : LexLess(a, b)

\* C15: for every input grid and either selector every call of search
\* terminates: every step of the program takes the rank, a bounded sequence
\* of natural numbers, strictly down in the lexicographic order, so no call
\* runs forever.  The number of nested backtrack_search calls below the
\* top-level one never exceeds the number of open cells of the input grid,
\* each recursive call being made on a grid with strictly fewer open cells
\* than its caller's.
C15_TerminationAndDepth ==
    [](DepthBounded /\ RankWellFounded) /\ [][RankDecreases]_vars

\* the search is three calls below the top-level call
C15_Witness ==
    /\ Depth >= 4
    /\ pc = "enter"

\* the loop of every frame goes through the positions of the domain one by
\* one from the first, and the copy being propagated has the branching
\* cell set to the value at the loop's position
CandidatesInOrder ==
    /\ \A d \in 1..Depth : frames[d].var # None => frames[d].k >= 1
    /\ pc = "branch" =>
          LET f == frames[Depth]
          IN  Cells(rows, new_grid)[f.var[1]][f.var[2]] = <<f.dom[f.k]>>

\* a step moves the loop of a frame that stays on the stack by at most one
\* position, and never back
LoopAdvances ==
    \A d \in 1..Min(Depth, Len(frames')) :
        (frames[d].var # None /\ frames'[d].grid = frames[d].grid) =>
            /\ frames'[d].var = frames[d].var
            /\ frames'[d].dom = frames[d].dom
            /\ frames'[d].k \in {frames[d].k, frames[d].k + 1}

\* while a grid is being returned, the only steps are returns of the same
\* grid to the calling frame, which tries no further candidate, and at last
\* to the caller of search
SolutionPassedUp ==
    (pc = "return" /\ retval # None) =>
        \/ /\ pc' = "return"
           /\ retval' = retval
           /\ rows' = rows
           /\ frames' = SubSeq(frames, 1, Depth - 1)
        \/ /\ pc' = "idle"
           /\ Depth = 1
           /\ results' = Append(results, results'[Len(results')])
           /\ results'[Len(results')].result = Cells(rows, retval)

\* the grid being returned holds, in the branching cell of every frame on
\* the stack, the candidate the frame's loop stands on, and no earlier
\* candidate of that cell belongs to a completion of the frame's grid
EarliestCandidateWins ==
    (pc = "return" /\ retval # None) =>
        \A d \in 1..Depth : frames[d].var # None =>
            LET f == frames[d]
                m == Cells(rows, f.grid)
            IN  /\ f.k <= Len(f.dom)
                /\ Cells(rows, retval)[f.var[1]][f.var[2]] = <<f.dom[f.k]>>
                /\ \A j \in 1..(f.k - 1) : \A b \in CompletionsOf(m) :
                      b[f.var[1]][f.var[2]] # <<f.dom[j]>>

\* C16: first success wins in depth-first, left-to-right order: every frame
\* tries the candidates in the stored order of the branching cell's domain;
\* as soon as a recursive call returns a grid the frame returns that same
\* grid and tries no later candidate; so the grid search returns gives every
\* branching cell the earliest candidate of its domain under which the
\* frame's grid has a solution.
C16_FirstSuccessWins ==
    /\ [](CandidatesInOrder /\ EarliestCandidateWins)
    /\ [][LoopAdvances /\ SolutionPassedUp]_vars

\* a grid is being returned through a frame that had given up its first
\* candidate and has later candidates it will not try
C16_Witness ==
    /\ pc = "return"
    /\ retval # None
    /\ \E d \in 1..(Depth - 1) : frames[d].k > 1 /\ frames[d].k < Len(frames[d].dom)

\* C17: after a pre_process_consistency that returned True the defensive
\* paths of backtrack_search are not taken: no frame is entered on a grid
\* that is not solved and on which a selector returns None, and no
\* candidate of a branching cell's domain fails the is_value_consistent
\* filter.  (After a failed pre-processing both paths are taken.)
C17_DefensivePathsUnused ==
    pre = "True" =>
        /\ pc = "enter" =>
              LET m == Cells(rows, frames[Depth].grid)
              IN  (FirstAvailable(m) = None \/ MRV(m) = None) => is_solved(m)
        /\ pc = "loop" =>
              LET f == frames[Depth]
                  m == Cells(rows, f.grid)
              IN  \A j \in 1..Len(f.dom) :
                      is_value_consistent(m, <<f.dom[j]>>, f.var[1], f.var[2])

\* after a pre-processing that returned True a nested frame has come to the
\* last candidate of its branching cell
C17_Witness ==
    /\ pre = "True"
    /\ pc = "loop"
    /\ Depth >= 2
    /\ frames[Depth].k = Len(frames[Depth].dom)

====
